---------------------------- MODULE Spec2Model ----------------------------
(***************************************************************************)
(* Model of the ledcontrol controller firmware (src/src/controller):       *)
(* the interrupt-driven UART line transport (uart.c), the command          *)
(* dispatcher and the fade engine (main.c), the HSV projection (light.c)   *)
(* and the PWM actuator registers (pwm.c, pwm.h).                          *)
(*                                                                         *)
(* Target conventions (avr-gcc / avr-libc, the toolchain the sources       *)
(* include): int is 16 bits wide, float and double are IEEE-754 binary32.  *)
(* Characters are modelled as one-character strings, C strings as          *)
(* sequences of characters without the terminating NUL.                    *)
(***************************************************************************)
EXTENDS Integers, Sequences, FiniteSets, TLC

(***************************************************************************)
(* IEEE-754 binary32 arithmetic, round to nearest, ties to even.           *)
(* A float is [sg, m, e] with value (-1)^sg * m * 2^e and, unless it is    *)
(* zero, 2^23 <= m < 2^24.  Subnormals, infinities and NaN do not occur in *)
(* the value ranges of the firmware and are not modelled.                  *)
(***************************************************************************)
F32(sg, m, e) == [sg |-> sg, m |-> m, e |-> e]

F32Set == [sg : {0, 1}, m : Nat, e : Int]

FZero == F32(0, 0, 0)

BitLen[n \in Nat] == CHOOSE k \in 0..30 : n < 2^k /\ (k = 0 \/ n >= 2^(k-1))

\* x * 2^e with x < 2^30 rounded to 24 significant bits; sticky tells that
\* the exact value has nonzero bits below the least significant bit of x.
FRound[sg \in {0, 1}, x \in Nat, e \in Int, sticky \in BOOLEAN] ==
    IF x = 0 THEN FZero
    ELSE LET len == BitLen[x] IN
         IF len <= 24 THEN F32(sg, x * 2^(24 - len), e - (24 - len))
         ELSE LET d    == len - 24
                  q    == x \div 2^d
                  r    == x % 2^d
                  half == 2^(d - 1)
                  up   == r > half \/ (r = half /\ (sticky \/ q % 2 = 1))
                  m    == IF up THEN q + 1 ELSE q
              IN  IF m = 2^24 THEN F32(sg, 2^23, e + d + 1)
                  ELSE F32(sg, m, e + d)

\* conversion int -> float (exact for |n| < 2^24)
IntToF[n \in Int] ==
    IF n < 0 THEN FRound[1, -n, 0, FALSE] ELSE FRound[0, n, 0, FALSE]

FNeg[a \in F32Set] == IF a.m = 0 THEN a ELSE F32(1 - a.sg, a.m, a.e)

FMul[a \in F32Set, b \in F32Set] ==
    IF a.m = 0 \/ b.m = 0 THEN FZero
    ELSE LET ah  == a.m \div 4096
             al  == a.m % 4096
             bh  == b.m \div 4096
             bl  == b.m % 4096
             lo  == al * bl
             mid == ah * bl + al * bh + (lo \div 4096)
             hi  == ah * bh + (mid \div 4096)
             low == (mid % 4096) * 4096 + (lo % 4096)
             \* a.m * b.m = hi * 2^24 + low
         IN  FRound[(a.sg + b.sg) % 2, hi * 8 + (low \div 2^21),
                    a.e + b.e + 21, low % 2^21 # 0]

\* the quotient of the significands is developed by 4 times 7 binary places
FDiv[a \in F32Set, b \in F32Set] ==
    IF a.m = 0 THEN FZero
    ELSE LET r0 == a.m % b.m
             r1 == (r0 * 128) % b.m
             r2 == (r1 * 128) % b.m
             r3 == (r2 * 128) % b.m
             r4 == (r3 * 128) % b.m
             q  == (a.m \div b.m) * 2^28 + ((r0 * 128) \div b.m) * 2^21
                   + ((r1 * 128) \div b.m) * 2^14
                   + ((r2 * 128) \div b.m) * 2^7 + ((r3 * 128) \div b.m)
         IN  FRound[(a.sg + b.sg) % 2, q, a.e - b.e - 28, r4 # 0]

FAdd[a \in F32Set, b \in F32Set] ==
    IF a.m = 0 THEN b
    ELSE IF b.m = 0 THEN a
    ELSE LET aBig  == a.e > b.e \/ (a.e = b.e /\ a.m >= b.m)
             big   == IF aBig THEN a ELSE b
             small == IF aBig THEN b ELSE a
             shift == big.e - small.e
             s8    == small.m * 8
             t     == IF shift > 27 THEN 0 ELSE s8 \div 2^shift
             lost  == IF shift > 27 THEN TRUE ELSE s8 % 2^shift # 0
             bs    == IF lost /\ t % 2 = 0 THEN t + 1 ELSE t
             x     == IF a.sg = b.sg THEN big.m * 8 + bs ELSE big.m * 8 - bs
         IN  FRound[big.sg, x, big.e - 3, FALSE]

FSub[a \in F32Set, b \in F32Set] == FAdd[a, FNeg[b]]

\* conversion float -> integer: the fractional part is discarded
FTrunc[a \in F32Set] ==
    LET mag == IF a.e >= 0 THEN a.m * 2^(a.e)
               ELSE IF -a.e > 30 THEN 0 ELSE a.m \div 2^(-a.e)
    IN  IF a.sg = 1 THEN -mag ELSE mag

\* conversion float -> uint8_t as avr-gcc compiles it: truncate, keep the
\* low byte (every value the firmware converts is within 0..255)
ToUint8[a \in F32Set] == FTrunc[a] % 256

(***************************************************************************)
(* light.c: projection of the light configuration onto an RGB colour.      *)
(***************************************************************************)
RGB(r, g, b) == [r |-> r, g |-> g, b |-> b]

\* make_rgb: each percentage is scaled by 255 and converted to uint8_t
make_rgb[r \in F32Set, g \in F32Set, b \in F32Set] ==
    RGB(ToUint8[FMul[r, IntToF[255]]],
        ToUint8[FMul[g, IntToF[255]]],
        ToUint8[FMul[b, IntToF[255]]])

hsv2rgb[h0 \in F32Set, s \in F32Set, v \in F32Set] ==
    IF s.m = 0 THEN make_rgb[v, v, v]
    ELSE LET h   == FDiv[h0, IntToF[60]]
             i   == FTrunc[h]
             f   == FSub[h, IntToF[i]]
             one == IntToF[1]
             p   == FMul[v, FSub[one, s]]
             q   == FMul[v, FSub[one, FMul[s, f]]]
             t   == FMul[v, FSub[one, FMul[s, FSub[one, f]]]]
         IN  CASE i = 0 -> make_rgb[v, t, p]
               [] i = 1 -> make_rgb[q, v, p]
               [] i = 2 -> make_rgb[p, v, t]
               [] i = 3 -> make_rgb[p, q, v]
               [] i = 4 -> make_rgb[t, p, v]
               [] OTHER -> make_rgb[v, p, q]

\* light_rgb (the LED_RGB implementation) applied to a light_status l
light_rgb(l) ==
    IF l.power = 0 THEN make_rgb[FZero, FZero, FZero]
    ELSE hsv2rgb[IntToF[l.hue],
                 FDiv[IntToF[l.saturation], IntToF[100]],
                 FDiv[IntToF[l.value], IntToF[100]]]

(***************************************************************************)
(* fade.h, main.c: one interpolation step of fade_light.                   *)
(***************************************************************************)
FADE_STEPS == 255

\* fault: the fraction is computed from the step before the decrement
FadeFraction_post(s) ==
    FDiv[IntToF[FADE_STEPS - (s + 1)], IntToF[FADE_STEPS]]

\* fault: the fraction is the share of the steps that remain
FadeFraction_remaining(s) == FDiv[IntToF[s], IntToF[FADE_STEPS]]

\* the fraction (FADE_STEPS - step) / FADE_STEPS for the decremented step
FadeFraction(s) == FDiv[IntToF[FADE_STEPS - s], IntToF[FADE_STEPS]]

\* fault: the channel is rounded to the nearest value, not truncated
FadeChannel_rounded(p, n, fade) ==
    ToUint8[FAdd[FAdd[IntToF[p], FMul[IntToF[n - p], fade]],
                 FDiv[IntToF[1], IntToF[2]]]]

\* prev.c + ((next.c - prev.c) * fade), converted to uint8_t by pwm_set_rgb
FadeChannel(p, n, fade) == ToUint8[FAdd[IntToF[p], FMul[IntToF[n - p], fade]]]

FadeColor(p, n, s) ==
    RGB(FadeChannel(p.r, n.r, FadeFraction(s)),
        FadeChannel(p.g, n.g, FadeFraction(s)),
        FadeChannel(p.b, n.b, FadeFraction(s)))

(***************************************************************************)
(* C library functions the dispatcher uses, on character sequences.        *)
(***************************************************************************)
UART_BUFFER_SIZE == 32

\* width of int on the target
INT_BITS == 16

Digit == {"0", "1", "2", "3", "4", "5", "6", "7", "8", "9"}

DigitChar == <<"0", "1", "2", "3", "4", "5", "6", "7", "8", "9">>

DigitVal(c) == (CHOOSE i \in 1..10 : DigitChar[i] = c) - 1

Space == {" ", "\t", "\n", "\r", "\f"}

\* the character '\0'
NUL == "NUL"

\* the C string that starts n characters behind the start of s; behind the
\* terminating NUL the destination of strncpy holds NUL padding
StrFrom(s, n) == IF n >= Len(s) THEN <<>> ELSE SubSeq(s, n + 1, Len(s))

\* strncpy(dst, src, n) read back as a C string (no NUL is written when src
\* has n or more characters)
strncpy(src, n) == IF Len(src) > n THEN SubSeq(src, 1, n) ELSE src

\* strncmp(command, buffer, strlen(command)) == 0
is_command(buffer, command) ==
    /\ Len(buffer) >= Len(command)
    /\ SubSeq(buffer, 1, Len(command)) = command

RECURSIVE SkipSpace(_)
SkipSpace(s) ==
    IF s # <<>> /\ Head(s) \in Space THEN SkipSpace(Tail(s)) ELSE s

\* the digits are accumulated in an int without an overflow check
RECURSIVE AtoiDigits(_, _)
AtoiDigits(s, acc) ==
    IF s = <<>> \/ Head(s) \notin Digit THEN acc
    ELSE AtoiDigits(Tail(s), (acc * 10 + DigitVal(Head(s))) % 2^INT_BITS)

\* the two's complement value of an INT_BITS wide pattern
ToInt(x) == IF x >= 2^(INT_BITS - 1) THEN x - 2^INT_BITS ELSE x

atoi(str) ==
    LET s == SkipSpace(str)
    IN  IF s # <<>> /\ Head(s) = "-"
          THEN ToInt((2^INT_BITS - AtoiDigits(Tail(s), 0)) % 2^INT_BITS)
        ELSE IF s # <<>> /\ Head(s) = "+" THEN ToInt(AtoiDigits(Tail(s), 0))
        ELSE ToInt(AtoiDigits(s, 0))

\* "%d" of a value
RECURSIVE UDec(_)
UDec(n) ==
    IF n < 10 THEN <<DigitChar[n + 1]>>
    ELSE UDec(n \div 10) \o <<DigitChar[(n % 10) + 1]>>

Dec(n) == IF n < 0 THEN <<"-">> \o UDec(-n) ELSE UDec(n)

\* fault: the format string lacks the newline
FormatReply_bare(cmd_set, value) == cmd_set \o <<" ">> \o Dec(value)

\* fault: sprintf with the value padded to the width of the buffer,
\* "%s %31d\n", which writes more than UART_BUFFER_SIZE bytes
FormatReply_padded(cmd_set, value) ==
    cmd_set \o <<" ">>
        \o [i \in 1..(UART_BUFFER_SIZE - 1 - Len(Dec(value))) |-> " "]
        \o Dec(value) \o <<"\n">>

\* snprintf(tmp, UART_BUFFER_SIZE, "%s %d\n", cmd_set, value)
FormatReply(cmd_set, value) ==
    LET full == cmd_set \o <<" ">> \o Dec(value) \o <<"\n">>
    IN  IF Len(full) > UART_BUFFER_SIZE - 1
          THEN SubSeq(full, 1, UART_BUFFER_SIZE - 1) ELSE full

(***************************************************************************)
(* main.c: the command dispatcher.                                         *)
(***************************************************************************)
CmdPwr == <<"p", "w", "r">>
CmdVal == <<"v", "a", "l">>
CmdHue == <<"h", "u", "e">>
CmdSat == <<"s", "a", "t">>

Getter(cmd) == <<"?">> \o cmd

\* the four calls of parse_command_int in parse_command, in their order
Params ==
    << [set |-> CmdPwr, get |-> Getter(CmdPwr), max |-> 1,   field |-> "power"],
       [set |-> CmdVal, get |-> Getter(CmdVal), max |-> 100, field |-> "value"],
       [set |-> CmdHue, get |-> Getter(CmdHue), max |-> 360, field |-> "hue"],
       [set |-> CmdSat, get |-> Getter(CmdSat), max |-> 100,
        field |-> "saturation"] >>

\* fault: the upper bound of the argument is not checked
parse_command_int_unchecked(buffer, cmd_set, cmd_get, max, dst) ==
    IF is_command(buffer, cmd_set)
      THEN LET tmp == atoi(StrFrom(buffer, Len(cmd_set) + 1))
           IN  [found |-> TRUE, dst |-> IF tmp >= 0 THEN tmp ELSE dst,
                send  |-> FALSE, tmp |-> <<>>]
    ELSE IF is_command(buffer, cmd_get)
      THEN [found |-> TRUE, dst |-> dst, send |-> TRUE,
            tmp |-> FormatReply(cmd_set, dst)]
    ELSE [found |-> FALSE, dst |-> dst, send |-> FALSE, tmp |-> <<>>]

\* fault: the lower bound of the argument is checked with > instead of >=
parse_command_int_positive(buffer, cmd_set, cmd_get, max, dst) ==
    IF is_command(buffer, cmd_set)
      THEN LET tmp == atoi(StrFrom(buffer, Len(cmd_set) + 1))
           IN  [found |-> TRUE,
                dst   |-> IF tmp > 0 /\ tmp <= max THEN tmp ELSE dst,
                send  |-> FALSE, tmp |-> <<>>]
    ELSE IF is_command(buffer, cmd_get)
      THEN [found |-> TRUE, dst |-> dst, send |-> TRUE,
            tmp |-> FormatReply(cmd_set, dst)]
    ELSE [found |-> FALSE, dst |-> dst, send |-> FALSE, tmp |-> <<>>]

\* parse_command_int: found tells whether the command was recognised, dst
\* is the value behind the destination pointer afterwards, send tells whether
\* uart_send is called and tmp is the string passed to it
parse_command_int(buffer, cmd_set, cmd_get, max, dst) ==
    IF is_command(buffer, cmd_set)
      THEN LET tmp == atoi(StrFrom(buffer, Len(cmd_set) + 1))
           IN  [found |-> TRUE,
                dst   |-> IF tmp >= 0 /\ tmp <= max THEN tmp ELSE dst,
                send  |-> FALSE, tmp |-> <<>>]
    ELSE IF is_command(buffer, cmd_get)
      THEN [found |-> TRUE, dst |-> dst, send |-> TRUE,
            tmp |-> FormatReply(cmd_set, dst)]
    ELSE [found |-> FALSE, dst |-> dst, send |-> FALSE, tmp |-> <<>>]

\* fault: the call for `sat` passes the address of light.hue
RECURSIVE ParseChain_pasted(_, _, _)
ParseChain_pasted(buffer, l, i) ==
    IF i > Len(Params) THEN [light |-> l, send |-> FALSE, tmp |-> <<>>]
    ELSE LET p == Params[i]
             f == IF p.field = "saturation" THEN "hue" ELSE p.field
             r == parse_command_int(buffer, p.set, p.get, p.max, l[f])
         IN  IF r.found
               THEN [light |-> [l EXCEPT ![f] = r.dst],
                     send |-> r.send, tmp |-> r.tmp]
             ELSE ParseChain_pasted(buffer, l, i + 1)

\* the if / else-if chain of parse_command from parameter i on: the light
\* afterwards and the reply to send, if any
RECURSIVE ParseChain(_, _, _)
ParseChain(buffer, l, i) ==
    IF i > Len(Params) THEN [light |-> l, send |-> FALSE, tmp |-> <<>>]
    ELSE LET p == Params[i]
             r == parse_command_int(buffer, p.set, p.get, p.max, l[p.field])
         IN  IF r.found
               THEN [light |-> [l EXCEPT ![p.field] = r.dst],
                     send |-> r.send, tmp |-> r.tmp]
             ELSE ParseChain(buffer, l, i + 1)

\* fault: a new fading cycle is started behind every line
IsSetterLine_always(buffer) == TRUE

\* fault: the test for the getter prefix is inverted
IsSetterLine_inverted(buffer) == buffer # <<>> /\ Head(buffer) = "?"

\* buffer[0] != '?', the test that starts a new fading cycle
IsSetterLine(buffer) == buffer = <<>> \/ Head(buffer) # "?"

(***************************************************************************)
(* The environment: the client sends lines of Lines, byte by byte, each    *)
(* ended by a terminator.  At most MaxLines lines are sent, the first byte *)
(* of a line arrives between two iterations of the control loop, at most   *)
(* drops_left bytes arrive while a complete line is still unconsumed, and  *)
(* each fading cycle is followed for its first horizon steps.              *)
(***************************************************************************)
MaxLines == 2

MaxTicks == 2

Arg(cmd, arg) == cmd \o <<" ">> \o arg

Lines ==
    { Arg(CmdPwr, <<"0">>), Arg(CmdPwr, <<"1">>), Arg(CmdPwr, <<"2">>),
      Arg(CmdPwr, <<"o", "n">>), Arg(CmdPwr, <<"o", "f", "f">>),
      Getter(CmdPwr),
      Arg(CmdVal, <<"5", "0">>), Arg(CmdVal, <<"1", "0", "1">>),
      Arg(CmdVal, <<"-", "1">>), Arg(CmdVal, <<"a", "b", "c">>), CmdVal,
      Arg(CmdVal, <<"6", "5", "5", "8", "6">>), Getter(CmdVal),
      Arg(CmdHue, <<"1", "2", "0">>), Arg(CmdHue, <<"3", "6", "1">>),
      Getter(CmdHue),
      Arg(CmdSat, <<"1", "0", "0">>), Arg(CmdSat, <<"1", "0", "1">>),
      Getter(CmdSat),
      <<>>, <<"f", "o", "o">>, <<"?", "f", "o", "o">> }

Terminator == {"\r", "\n"}

IsPrefix(s, t) == Len(s) <= Len(t) /\ SubSeq(t, 1, Len(s)) = s

\* the bytes the client may send after the bytes sent of the current line
ClientNext(sent) ==
    {l[Len(sent) + 1] : l \in {l \in Lines : IsPrefix(sent, l) /\ l # sent}}
    \cup (IF sent \in Lines THEN Terminator ELSE {})

Light(p, v, h, s) == [power |-> p, value |-> v, hue |-> h, saturation |-> s]

\* light configurations the firmware rests in when the model starts; the
\* first is the configuration after reset
InitLights ==
    { Light(0, 0, 0, 0), Light(1, 100, 0, 0), Light(1, 50, 120, 100) }

(***************************************************************************)
(* The state of the firmware.                                              *)
(***************************************************************************)
VARIABLES
    light,           \* light.c: the desired configuration
    pwm,             \* the PWM registers PWM_R, PWM_G, PWM_B
    step, prev, next,\* fade_light: its static variables
    fade_steps,      \* fading steps taken since the cycle was started
    iter_steps,      \* fading steps taken in the current loop iteration
    uart_rx_ready, uart_rx_buffer, uart_rx_cnt,
    uart_tx_ready, uart_tx_buffer, uart_tx_p,
    udrie,           \* the UDRIE0 bit of UCSR0B
    udr,             \* the byte last written to UDR0, <<>> before the first
    wire,            \* the bytes written to UDR0 since the last uart_send
    pc,              \* position of the control loop
    buffer,          \* parse_command: its local buffer
    tmp,             \* parse_command_int: the string passed to uart_send
    last,            \* the line parse_command handled last
    client,          \* the bytes the client has sent of its current line
    lines_left,      \* lines the client may still send
    drops_left,      \* bytes that may still arrive while a line is unconsumed
    horizon          \* steps each fading cycle is followed for

vars == <<light, pwm, step, prev, next, fade_steps, iter_steps,
          uart_rx_ready, uart_rx_buffer, uart_rx_cnt, uart_tx_ready,
          uart_tx_buffer, uart_tx_p, udrie, udr, wire,
          pc, buffer, tmp, last, client, lines_left, drops_left, horizon>>

fadeVars == <<pwm, step, prev, next, fade_steps, iter_steps>>
rxVars   == <<uart_rx_ready, uart_rx_buffer, uart_rx_cnt>>
txVars   == <<uart_tx_ready, uart_tx_buffer, uart_tx_p, udrie, udr, wire>>
envVars  == <<client, lines_left, drops_left, horizon>>

\* the firmware at rest on the configuration l: static storage as after
\* reset, the actuator on the projected colour
Rest(l) ==
    /\ light = l
    /\ pwm = light_rgb(l)
    /\ step = 0
    /\ prev = light_rgb(l)
    /\ next = light_rgb(l)
    /\ fade_steps = FADE_STEPS
    /\ iter_steps = 0
    /\ uart_rx_ready = FALSE
    /\ uart_rx_buffer = <<>>
    /\ uart_rx_cnt = 0
    /\ uart_tx_ready = TRUE
    /\ uart_tx_buffer = <<>>
    /\ uart_tx_p = 0
    /\ udrie = FALSE
    /\ udr = <<>>
    /\ wire = <<>>
    /\ pc = "fade"
    /\ buffer = <<>>
    /\ tmp = <<>>
    /\ last = <<>>
    /\ client = <<>>

Init ==
    /\ \E l \in InitLights : Rest(l)
    /\ lines_left = MaxLines
    /\ drops_left = 0
    /\ horizon = MaxTicks

(***************************************************************************)
(* main.c: fade_light.                                                     *)
(***************************************************************************)
\* fault: the colour to fade to is projected from the configuration as it
\* was before the command was parsed
fade_light_early(set, l) ==
    /\ prev' = IF set THEN pwm ELSE prev
    /\ next' = IF set THEN light_rgb(light) ELSE next
    /\ step' = IF set THEN FADE_STEPS - 1
               ELSE IF step > 0 THEN step - 1 ELSE step
    /\ pwm' = IF set \/ step > 0 THEN FadeColor(prev', next', step') ELSE pwm
    /\ fade_steps' = IF set THEN 1
                     ELSE IF step > 0 THEN fade_steps + 1 ELSE fade_steps
    /\ iter_steps' = (IF set THEN iter_steps ELSE 0)
                        + (IF set \/ step > 0 THEN 1 ELSE 0)

\* fault: the steps are taken while step >= 0; the uint8_t counter wraps
fade_light_wrap(set, l) ==
    /\ prev' = IF set THEN pwm ELSE prev
    /\ next' = IF set THEN light_rgb(l) ELSE next
    /\ step' = IF set THEN FADE_STEPS - 1 ELSE (step + 255) % 256
    /\ pwm' = FadeColor(prev', next', step')
    /\ fade_steps' = IF set THEN 1 ELSE fade_steps + 1
    /\ iter_steps' = (IF set THEN iter_steps ELSE 0) + 1

\* fault: the block of the step is not guarded by step > 0
fade_light_always(set, l) ==
    /\ prev' = IF set THEN pwm ELSE prev
    /\ next' = IF set THEN light_rgb(l) ELSE next
    /\ step' = IF set THEN FADE_STEPS - 1
               ELSE IF step > 0 THEN step - 1 ELSE step
    /\ pwm' = FadeColor(prev', next', step')
    /\ fade_steps' = IF set THEN 1 ELSE fade_steps + 1
    /\ iter_steps' = (IF set THEN iter_steps ELSE 0) + 1

\* fault: the steps are taken while step > 1
fade_light_short(set, l) ==
    /\ prev' = IF set THEN pwm ELSE prev
    /\ next' = IF set THEN light_rgb(l) ELSE next
    /\ step' = IF set THEN FADE_STEPS - 1
               ELSE IF step > 1 THEN step - 1 ELSE step
    /\ pwm' = IF set \/ step > 1 THEN FadeColor(prev', next', step') ELSE pwm
    /\ fade_steps' = IF set THEN 1
                     ELSE IF step > 1 THEN fade_steps + 1 ELSE fade_steps
    /\ iter_steps' = (IF set THEN iter_steps ELSE 0)
                        + (IF set \/ step > 1 THEN 1 ELSE 0)

\* fault: a cycle started during a running one keeps the start colour of
\* the running one
fade_light_restart(set, l) ==
    /\ prev' = IF set /\ step = 0 THEN pwm ELSE prev
    /\ next' = IF set THEN light_rgb(l) ELSE next
    /\ step' = IF set THEN FADE_STEPS - 1
               ELSE IF step > 0 THEN step - 1 ELSE step
    /\ pwm' = IF set \/ step > 0 THEN FadeColor(prev', next', step') ELSE pwm
    /\ fade_steps' = IF set THEN 1
                     ELSE IF step > 0 THEN fade_steps + 1 ELSE fade_steps
    /\ iter_steps' = (IF set THEN iter_steps ELSE 0)
                        + (IF set \/ step > 0 THEN 1 ELSE 0)

\* fade_light(set) on the light configuration l: the static variables and
\* the PWM registers afterwards.  A fading step is the block of --step,
\* pwm_set_rgb and _delay_ms; the call with set = false opens an iteration
\* of the loop.
fade_light(set, l) ==
    /\ prev' = IF set THEN pwm ELSE prev
    /\ next' = IF set THEN light_rgb(l) ELSE next
    /\ step' = IF set THEN FADE_STEPS - 1
               ELSE IF step > 0 THEN step - 1 ELSE step
    /\ pwm' = IF set \/ step > 0 THEN FadeColor(prev', next', step') ELSE pwm
    /\ fade_steps' = IF set THEN 1
                     ELSE IF step > 0 THEN fade_steps + 1 ELSE fade_steps
    /\ iter_steps' = (IF set THEN iter_steps ELSE 0)
                        + (IF set \/ step > 0 THEN 1 ELSE 0)

\* main: fade_light(false), the first call of every loop iteration
FadeTick ==
    /\ pc = "fade"
    /\ step = 0 \/ step > FADE_STEPS - horizon
    /\ light' = light
    /\ fade_light(FALSE, light)
    /\ pc' = "receive"
    /\ UNCHANGED <<rxVars, txVars, buffer, tmp, last, envVars>>

(***************************************************************************)
(* uart.c: uart_receive, called by parse_command.                          *)
(***************************************************************************)
\* if (!uart_rx_ready) return false; parse_command returns at once
UartReceiveCheck ==
    /\ pc = "receive"
    /\ pc' = IF uart_rx_ready THEN "receive_copy" ELSE "fade"
    /\ UNCHANGED <<light, fadeVars, rxVars, txVars, buffer, tmp, last, envVars>>

\* fault: uart_receive empties the receive buffer behind the copy
UartReceiveCopy_wipe ==
    /\ pc = "receive_copy"
    /\ buffer' = strncpy(uart_rx_buffer, UART_BUFFER_SIZE)
    /\ uart_rx_buffer' = <<>>
    /\ pc' = "receive_clear"
    /\ UNCHANGED <<light, fadeVars, uart_rx_ready, uart_rx_cnt, txVars, tmp,
                   last, envVars>>

\* strncpy(dst, uart_rx_buffer, len)
UartReceiveCopy ==
    /\ pc = "receive_copy"
    /\ buffer' = strncpy(uart_rx_buffer, UART_BUFFER_SIZE)
    /\ pc' = "receive_clear"
    /\ UNCHANGED <<light, fadeVars, rxVars, txVars, tmp, last, envVars>>

\* fault: uart_receive returns without clearing uart_rx_ready
UartReceiveClear_keep ==
    /\ pc = "receive_clear"
    /\ pc' = "parse"
    /\ UNCHANGED <<light, fadeVars, rxVars, txVars, buffer, tmp, last, envVars>>

\* uart_rx_ready = false; return 1
UartReceiveClear ==
    /\ pc = "receive_clear"
    /\ uart_rx_ready' = FALSE
    /\ pc' = "parse"
    /\ UNCHANGED <<light, fadeVars, uart_rx_buffer, uart_rx_cnt, txVars,
                   buffer, tmp, last, envVars>>

(***************************************************************************)
(* main.c: parse_command behind uart_receive.                              *)
(***************************************************************************)
\* fault: parse_command does not call fade_light(true)
ParseSetter_unarmed ==
    /\ pc = "parse"
    /\ ~ParseChain(buffer, light, 1).send
    /\ light' = ParseChain(buffer, light, 1).light
    /\ buffer' = <<>>
    /\ last' = buffer
    /\ pc' = "fade"
    /\ UNCHANGED <<fadeVars, rxVars, txVars, tmp, envVars>>

\* a line that is no getter: the chain of parse_command_int calls, then
\* fade_light(true)
ParseSetter ==
    /\ pc = "parse"
    /\ ~ParseChain(buffer, light, 1).send
    /\ light' = ParseChain(buffer, light, 1).light
    /\ IF IsSetterLine(buffer) THEN fade_light(TRUE, light')
       ELSE UNCHANGED fadeVars
    /\ buffer' = <<>>
    /\ last' = buffer
    /\ pc' = "fade"
    /\ UNCHANGED <<rxVars, txVars, tmp, envVars>>

\* fault: the getter reports what the actuator shows
ParseGetter_actuator ==
    /\ pc = "parse"
    /\ ParseChain(buffer, light, 1).send
    /\ light' = light
    /\ tmp' = FormatReply(SubSeq(buffer, 2, Len(buffer)), pwm.r)
    /\ pc' = "send"
    /\ UNCHANGED <<fadeVars, rxVars, txVars, buffer, last, envVars>>

\* a getter: the reply is formatted and uart_send is entered
ParseGetter ==
    /\ pc = "parse"
    /\ ParseChain(buffer, light, 1).send
    /\ light' = ParseChain(buffer, light, 1).light
    /\ tmp' = ParseChain(buffer, light, 1).tmp
    /\ pc' = "send"
    /\ UNCHANGED <<fadeVars, rxVars, txVars, buffer, last, envVars>>

\* the end of parse_command behind uart_send
ParseReturn ==
    /\ IF IsSetterLine(buffer) THEN fade_light(TRUE, light)
       ELSE UNCHANGED fadeVars
    /\ buffer' = <<>>
    /\ tmp' = <<>>
    /\ last' = buffer
    /\ pc' = "fade"

(***************************************************************************)
(* uart.c: uart_send.                                                      *)
(***************************************************************************)
\* fault: uart_send does not test uart_tx_ready
UartSendBusy_overwrite ==
    /\ pc = "send"
    /\ ~uart_tx_ready
    /\ uart_tx_buffer' = strncpy(tmp, UART_BUFFER_SIZE)
    /\ udrie' = TRUE
    /\ light' = light
    /\ ParseReturn
    /\ UNCHANGED <<rxVars, uart_tx_ready, uart_tx_p, udr, wire, envVars>>

\* fault: the dispatcher calls uart_send again until it succeeds,
\* while (!uart_send(tmp));
UartSendBusy_spin ==
    /\ pc = "send"
    /\ ~uart_tx_ready
    /\ UNCHANGED vars

\* fault: the return is missing behind the test of uart_tx_ready
UartSendBusy_fallthrough ==
    /\ pc = "send"
    /\ ~uart_tx_ready
    /\ pc' = "send_copy"
    /\ wire' = <<>>
    /\ UNCHANGED <<light, fadeVars, rxVars, uart_tx_ready, uart_tx_buffer,
                   uart_tx_p, udrie, udr, buffer, tmp, last, envVars>>

\* if (!uart_tx_ready) return false;
UartSendBusy ==
    /\ pc = "send"
    /\ ~uart_tx_ready
    /\ light' = light
    /\ ParseReturn
    /\ UNCHANGED <<rxVars, txVars, envVars>>

\* fault: UDRIE0 is set before the string is copied
UartSendLock_armed ==
    /\ pc = "send"
    /\ uart_tx_ready
    /\ uart_tx_ready' = FALSE
    /\ udrie' = TRUE
    /\ pc' = "send_copy"
    /\ wire' = <<>>
    /\ UNCHANGED <<light, fadeVars, rxVars, uart_tx_buffer, uart_tx_p, udr,
                   buffer, tmp, last, envVars>>

\* uart_tx_ready = false;
UartSendLock ==
    /\ pc = "send"
    /\ uart_tx_ready
    /\ uart_tx_ready' = FALSE
    /\ pc' = "send_copy"
    /\ wire' = <<>>
    /\ UNCHANGED <<light, fadeVars, rxVars, uart_tx_buffer, uart_tx_p, udrie,
                   udr, buffer, tmp, last, envVars>>

\* strncpy(uart_tx_buffer, src, UART_BUFFER_SIZE);
UartSendCopy ==
    /\ pc = "send_copy"
    /\ uart_tx_buffer' = strncpy(tmp, UART_BUFFER_SIZE)
    /\ pc' = "send_arm"
    /\ UNCHANGED <<light, fadeVars, rxVars, uart_tx_ready, uart_tx_p, udrie,
                   udr, wire, buffer, tmp, last, envVars>>

\* UCSR0B |= _BV(UDRIE0); return true;
UartSendArm ==
    /\ pc = "send_arm"
    /\ udrie' = TRUE
    /\ light' = light
    /\ ParseReturn
    /\ UNCHANGED <<rxVars, uart_tx_ready, uart_tx_buffer, uart_tx_p, udr,
                   wire, envVars>>

(***************************************************************************)
(* uart.c: the interrupt service routines.                                 *)
(***************************************************************************)
\* fault: the handler does not test uart_rx_ready
RxByte_unguarded(data) ==
    IF data \in Terminator
      THEN /\ uart_rx_buffer' = SubSeq(uart_rx_buffer, 1, uart_rx_cnt)
           /\ uart_rx_ready' = TRUE
           /\ uart_rx_cnt' = 0
    ELSE IF uart_rx_cnt < UART_BUFFER_SIZE - 1
      THEN /\ uart_rx_buffer' =
                  SubSeq(uart_rx_buffer, 1, uart_rx_cnt) \o <<data>>
           /\ uart_rx_cnt' = uart_rx_cnt + 1
           /\ uart_rx_ready' = uart_rx_ready
    ELSE UNCHANGED rxVars

\* fault: the handler tests uart_rx_ready behind the test for a terminator
RxByte_terminator(data) ==
    IF data \in Terminator
      THEN /\ uart_rx_buffer' = SubSeq(uart_rx_buffer, 1, uart_rx_cnt)
           /\ uart_rx_ready' = TRUE
           /\ uart_rx_cnt' = 0
    ELSE IF uart_rx_ready
      THEN UNCHANGED rxVars
    ELSE IF uart_rx_cnt < UART_BUFFER_SIZE - 1
      THEN /\ uart_rx_buffer' =
                  SubSeq(uart_rx_buffer, 1, uart_rx_cnt) \o <<data>>
           /\ uart_rx_cnt' = uart_rx_cnt + 1
           /\ uart_rx_ready' = uart_rx_ready
    ELSE UNCHANGED rxVars

\* fault: the terminator is stored before the string is terminated
RxByte_stored(data) ==
    IF uart_rx_ready
      THEN UNCHANGED rxVars
    ELSE IF data \in Terminator
      THEN /\ uart_rx_buffer' =
                  SubSeq(uart_rx_buffer, 1, uart_rx_cnt) \o <<data>>
           /\ uart_rx_ready' = TRUE
           /\ uart_rx_cnt' = 0
    ELSE IF uart_rx_cnt < UART_BUFFER_SIZE - 1
      THEN /\ uart_rx_buffer' =
                  SubSeq(uart_rx_buffer, 1, uart_rx_cnt) \o <<data>>
           /\ uart_rx_cnt' = uart_rx_cnt + 1
           /\ uart_rx_ready' = uart_rx_ready
    ELSE UNCHANGED rxVars

\* fault: bytes are stored while uart_rx_cnt < UART_BUFFER_SIZE, which
\* leaves no room for the NUL
RxByte_full(data) ==
    IF uart_rx_ready
      THEN UNCHANGED rxVars
    ELSE IF data \in Terminator
      THEN /\ uart_rx_buffer' = SubSeq(uart_rx_buffer, 1, uart_rx_cnt)
           /\ uart_rx_ready' = TRUE
           /\ uart_rx_cnt' = 0
    ELSE IF uart_rx_cnt < UART_BUFFER_SIZE
      THEN /\ uart_rx_buffer' =
                  SubSeq(uart_rx_buffer, 1, uart_rx_cnt) \o <<data>>
           /\ uart_rx_cnt' = uart_rx_cnt + 1
           /\ uart_rx_ready' = uart_rx_ready
    ELSE UNCHANGED rxVars

\* ISR(USART_RX_vect) for the received byte data
RxByte(data) ==
    IF uart_rx_ready
      THEN UNCHANGED rxVars
    ELSE IF data \in Terminator
      THEN /\ uart_rx_buffer' = SubSeq(uart_rx_buffer, 1, uart_rx_cnt)
           /\ uart_rx_ready' = TRUE
           /\ uart_rx_cnt' = 0
    ELSE IF uart_rx_cnt < UART_BUFFER_SIZE - 1
      THEN /\ uart_rx_buffer' =
                  SubSeq(uart_rx_buffer, 1, uart_rx_cnt) \o <<data>>
           /\ uart_rx_cnt' = uart_rx_cnt + 1
           /\ uart_rx_ready' = uart_rx_ready
    ELSE UNCHANGED rxVars

USART_RX_vect ==
    /\ lines_left > 0
    /\ client = <<>> => pc = "fade"
    /\ uart_rx_ready => drops_left > 0
    /\ drops_left' = IF uart_rx_ready THEN drops_left - 1 ELSE drops_left
    /\ \E data \in ClientNext(client) :
         /\ RxByte(data)
         /\ IF data \in Terminator
              THEN client' = <<>> /\ lines_left' = lines_left - 1
              ELSE client' = client \o <<data>> /\ lines_left' = lines_left
    /\ UNCHANGED <<light, fadeVars, txVars, pc, buffer, tmp, last, horizon>>

\* fault: the pointer is incremented before it is read, *++uart_tx_p
TxAt_ahead(p) ==
    IF p + 1 < Len(uart_tx_buffer) THEN uart_tx_buffer[p + 2] ELSE NUL

\* the byte at the transmit pointer; behind the string the buffer holds the
\* NUL padding of strncpy
TxAt(p) == IF p < Len(uart_tx_buffer) THEN uart_tx_buffer[p + 1] ELSE NUL

\* fault: the handler does not set uart_tx_ready at the end of the string
USART_UDRE_vect_locked ==
    /\ udrie
    /\ IF TxAt(uart_tx_p) = NUL
         THEN /\ udrie' = FALSE
              /\ uart_tx_p' = 0
              /\ UNCHANGED <<uart_tx_ready, udr, wire>>
         ELSE /\ udr' = <<TxAt(uart_tx_p)>>
              /\ wire' = wire \o <<TxAt(uart_tx_p)>>
              /\ uart_tx_p' = uart_tx_p + 1
              /\ UNCHANGED <<udrie, uart_tx_ready>>
    /\ UNCHANGED <<light, fadeVars, rxVars, uart_tx_buffer, pc, buffer, tmp,
                   last, envVars>>

\* ISR(USART_UDRE_vect), taken while UDRIE0 is set
USART_UDRE_vect ==
    /\ udrie
    /\ IF TxAt(uart_tx_p) = NUL
         THEN /\ udrie' = FALSE
              /\ uart_tx_p' = 0
              /\ uart_tx_ready' = TRUE
              /\ UNCHANGED <<udr, wire>>
         ELSE /\ udr' = <<TxAt(uart_tx_p)>>
              /\ wire' = wire \o <<TxAt(uart_tx_p)>>
              /\ uart_tx_p' = uart_tx_p + 1
              /\ UNCHANGED <<udrie, uart_tx_ready>>
    /\ UNCHANGED <<light, fadeVars, rxVars, uart_tx_buffer, pc, buffer, tmp,
                   last, envVars>>

Next ==
    \/ FadeTick
    \/ UartReceiveCheck
    \/ UartReceiveCopy
    \/ UartReceiveClear
    \/ ParseSetter
    \/ ParseGetter
    \/ UartSendBusy
    \/ UartSendLock
    \/ UartSendCopy
    \/ UartSendArm
    \/ USART_RX_vect
    \/ USART_UDRE_vect

Spec == Init /\ [][Next]_vars


(***************************************************************************)
(* A fading cycle followed to its end.  The control loop runs with a       *)
(* silent client from the state behind the call fade_light(true) that an   *)
(* empty line causes while the PWM registers hold the colour c and the     *)
(* configuration is l.                                                     *)
(***************************************************************************)
\* colours of the PWM registers at the start of the cycle
FadeStarts ==
    { RGB(0, 0, 0), RGB(255, 255, 255), RGB(25, 128, 254), RGB(200, 1, 127) }

\* configurations faded to: black, white, a third of green, blue, a mixture
FadeLights ==
    InitLights \cup { Light(1, 100, 240, 100), Light(1, 33, 300, 77) }

Started(c, l) ==
    /\ light = l
    /\ prev = c
    /\ next = light_rgb(l)
    /\ step = FADE_STEPS - 1
    /\ pwm = FadeColor(c, light_rgb(l), FADE_STEPS - 1)
    /\ fade_steps = 1
    /\ iter_steps = 1
    /\ uart_rx_ready = FALSE
    /\ uart_rx_buffer = <<>>
    /\ uart_rx_cnt = 0
    /\ uart_tx_ready = TRUE
    /\ uart_tx_buffer = <<>>
    /\ uart_tx_p = 0
    /\ udrie = FALSE
    /\ udr = <<>>
    /\ wire = <<>>
    /\ pc = "fade"
    /\ buffer = <<>>
    /\ tmp = <<>>
    /\ last = <<>>
    /\ client = <<>>

InitFade ==
    /\ \E c \in FadeStarts, l \in FadeLights : Started(c, l)
    /\ lines_left = 0
    /\ drops_left = 0
    /\ horizon = FADE_STEPS

\* the steps of Next that are possible while the client is silent
NextFade ==
    \/ FadeTick
    \/ UartReceiveCheck

SpecFade == InitFade /\ [][NextFade]_vars

(***************************************************************************)
(* A fading cycle that a setter may restart.  The cycle from the colour c  *)
(* to the projection of l has LateStep steps left, and the client has sent *)
(* the line `val 50` up to its last digit: the rest of the line arrives at *)
(* any time, before or after the end of the cycle.                         *)
(***************************************************************************)
LateStep == 3

InFlight(c, l, s) ==
    /\ light = l
    /\ prev = c
    /\ next = light_rgb(l)
    /\ step = s
    /\ pwm = FadeColor(c, light_rgb(l), s)
    /\ fade_steps = FADE_STEPS - s
    /\ iter_steps = 1
    /\ uart_rx_ready = FALSE
    /\ uart_rx_buffer = <<"v", "a", "l", " ", "5">>
    /\ uart_rx_cnt = 5
    /\ uart_tx_ready = TRUE
    /\ uart_tx_buffer = <<>>
    /\ uart_tx_p = 0
    /\ udrie = FALSE
    /\ udr = <<>>
    /\ wire = <<>>
    /\ pc = "receive"
    /\ buffer = <<>>
    /\ tmp = <<>>
    /\ last = <<>>
    /\ client = <<"v", "a", "l", " ", "5">>

InitRearm ==
    /\ \E c \in FadeStarts, l \in FadeLights : InFlight(c, l, LateStep)
    /\ lines_left = 1
    /\ drops_left = 0
    /\ horizon = FADE_STEPS

\* the steps of the control loop that are possible with setter lines
LoopRearm ==
    \/ FadeTick
    \/ UartReceiveCheck
    \/ UartReceiveCopy
    \/ UartReceiveClear
    \/ ParseSetter

NextRearm ==
    \/ LoopRearm
    \/ USART_RX_vect

\* the main loop never ends: the control loop always takes its next step;
\* nothing is assumed about the arrival of bytes
SpecRearmLive == InitRearm /\ [][NextRearm]_vars /\ WF_vars(LoopRearm)


(***************************************************************************)
(* A client that does not wait.  A complete line is in the receive buffer, *)
(* not yet taken by the control loop, and the client sends DropLines more  *)
(* lines, of which at most MaxDrops bytes arrive while a line is waiting.  *)
(***************************************************************************)
MaxDrops == 2

DropLines == 1

PendingLines == { Arg(CmdVal, <<"5", "0">>), Getter(CmdVal) }

Pending(l, line) ==
    /\ light = l
    /\ pwm = light_rgb(l)
    /\ step = 0
    /\ prev = light_rgb(l)
    /\ next = light_rgb(l)
    /\ fade_steps = FADE_STEPS
    /\ iter_steps = 0
    /\ uart_rx_ready = TRUE
    /\ uart_rx_buffer = line
    /\ uart_rx_cnt = 0
    /\ uart_tx_ready = TRUE
    /\ uart_tx_buffer = <<>>
    /\ uart_tx_p = 0
    /\ udrie = FALSE
    /\ udr = <<>>
    /\ wire = <<>>
    /\ pc = "fade"
    /\ buffer = <<>>
    /\ tmp = <<>>
    /\ last = <<>>
    /\ client = <<>>

InitDrop ==
    /\ \E line \in PendingLines : Pending(Light(1, 100, 0, 0), line)
    /\ lines_left = DropLines
    /\ drops_left = MaxDrops
    /\ horizon = MaxTicks

SpecDrop == InitDrop /\ [][Next]_vars

(***************************************************************************)
(* A client that sends long lines.  The lines have UART_BUFFER_SIZE - 2 up *)
(* to UART_BUFFER_SIZE - 1 + MaxExcess bytes, the byte at position i being *)
(* the last digit of i, so that no two neighbouring bytes are equal; no    *)
(* byte arrives while a line is waiting.                                   *)
(***************************************************************************)
MaxExcess == 2

LongLine(n) == [i \in 1..n |-> DigitChar[(i % 10) + 1]]

LongLines ==
    { LongLine(n) :
        n \in (UART_BUFFER_SIZE - 2)..(UART_BUFFER_SIZE - 1 + MaxExcess) }

\* the bytes a client that sends lines of the set lines may send after the
\* bytes sent of the current line
BytesNext(lines, sent) ==
    {l[Len(sent) + 1] : l \in {l \in lines : IsPrefix(sent, l) /\ l # sent}}
    \cup (IF sent \in lines THEN Terminator ELSE {})

\* ISR(USART_RX_vect) for the next byte of a client that sends lines of the
\* set lines
Arrival(lines) ==
    /\ lines_left > 0
    /\ client = <<>> => pc = "fade"
    /\ uart_rx_ready => drops_left > 0
    /\ drops_left' = IF uart_rx_ready THEN drops_left - 1 ELSE drops_left
    /\ \E data \in BytesNext(lines, client) :
         /\ RxByte(data)
         /\ IF data \in Terminator
              THEN client' = <<>> /\ lines_left' = lines_left - 1
              ELSE client' = client \o <<data>> /\ lines_left' = lines_left
    /\ UNCHANGED <<light, fadeVars, txVars, pc, buffer, tmp, last, horizon>>

USART_RX_long == Arrival(LongLines)

InitLong ==
    /\ Rest(Light(0, 0, 0, 0))
    /\ lines_left = MaxLines
    /\ drops_left = 0
    /\ horizon = MaxTicks

\* the steps of the control loop that are possible with lines that are no
\* getters, and the arrival of the bytes
NextLong ==
    \/ FadeTick
    \/ UartReceiveCheck
    \/ UartReceiveCopy
    \/ UartReceiveClear
    \/ ParseSetter
    \/ USART_RX_long

SpecLong == InitLong /\ [][NextLong]_vars

(***************************************************************************)
(* The control loop that never stops.  The line `?val` is waiting in the   *)
(* receive buffer and the client sends one more line, a getter or a        *)
(* setter, of which at most MaxDrops bytes arrive while a line is waiting; *)
(* the fading cycle that a line starts is followed to its end.  The        *)
(* control loop always takes its next step; nothing is assumed about the   *)
(* interrupts.                                                             *)
(***************************************************************************)
LiveLines == { Getter(CmdHue), Arg(CmdVal, <<"5", "0">>) }

USART_RX_live == Arrival(LiveLines)

InitLive ==
    /\ Pending(Light(1, 100, 0, 0), Getter(CmdVal))
    /\ lines_left = 1
    /\ drops_left = MaxDrops
    /\ horizon = FADE_STEPS

\* the steps of the control loop
Loop ==
    \/ FadeTick
    \/ UartReceiveCheck
    \/ UartReceiveCopy
    \/ UartReceiveClear
    \/ ParseSetter
    \/ ParseGetter
    \/ UartSendBusy
    \/ UartSendLock
    \/ UartSendCopy
    \/ UartSendArm

NextLive ==
    \/ Loop
    \/ USART_RX_live
    \/ USART_UDRE_vect

SpecLoopLive == InitLive /\ [][NextLive]_vars /\ WF_vars(Loop)

(***************************************************************************)
(* One command and what follows it.  The firmware rests on a configuration *)
(* of InitLights, the client sends one line of Lines, and the fading cycle *)
(* that the line starts is followed to its end.                            *)
(***************************************************************************)
InitSettle ==
    /\ \E l \in InitLights : Rest(l)
    /\ lines_left = 1
    /\ drops_left = 0
    /\ horizon = FADE_STEPS

\* the steps of Next that are possible with a single line
NextSettle ==
    \/ FadeTick
    \/ UartReceiveCheck
    \/ UartReceiveCopy
    \/ UartReceiveClear
    \/ ParseSetter
    \/ ParseGetter
    \/ UartSendLock
    \/ UartSendCopy
    \/ UartSendArm
    \/ USART_RX_vect
    \/ USART_UDRE_vect

SpecSettle == InitSettle /\ [][NextSettle]_vars

\* the control loop always takes its next step, and the transmit interrupt
\* is taken whenever UDRIE0 stays set: the data register becomes empty
\* again behind every byte; nothing is assumed about the client
SpecSendLive ==
    /\ InitLive
    /\ [][NextLive]_vars
    /\ WF_vars(Loop)
    /\ WF_vars(USART_UDRE_vect)

(***************************************************************************)
(* A client that repeats a setter without end.  A fading cycle from the    *)
(* colour c to the projection of l has been started, and the client sends  *)
(* the line `pwr 0` or `pwr 1` that sets the power to what it is, again    *)
(* and again: a whole line arrives before each iteration of the control    *)
(* loop, so that every iteration restarts the cycle with the same end      *)
(* colour.                                                                 *)
(***************************************************************************)
StormLine(l) == Arg(CmdPwr, Dec(l.power))

InitStorm ==
    /\ \E c \in FadeStarts, l \in FadeLights : Started(c, l)
    /\ lines_left = 0
    /\ drops_left = 0
    /\ horizon = FADE_STEPS

\* ISR(USART_RX_vect) for the next byte of the repeated line
USART_RX_storm ==
    /\ pc = "fade"
    /\ ~uart_rx_ready
    /\ \E data \in BytesNext({StormLine(light)}, client) :
         /\ RxByte(data)
         /\ client' = IF data \in Terminator THEN <<>> ELSE client \o <<data>>
    /\ UNCHANGED <<light, fadeVars, txVars, pc, buffer, tmp, last, lines_left,
                   drops_left, horizon>>

\* main: fade_light(false) of an iteration before which a line has arrived
StormTick ==
    /\ uart_rx_ready
    /\ FadeTick

NextStorm ==
    \/ StormTick
    \/ UartReceiveCheck
    \/ UartReceiveCopy
    \/ UartReceiveClear
    \/ ParseSetter
    \/ USART_RX_storm

\* the control loop always takes its next step and the client always sends
\* its next byte
SpecStorm == InitStorm /\ [][NextStorm]_vars /\ WF_vars(NextStorm)

(***************************************************************************)
(* The vocabulary of the properties: the kinds of lines of the protocol.   *)
(***************************************************************************)
\* the text behind the setter prefix of parameter p and its blank
Argument(p, line) == StrFrom(line, Len(p.set) + 1)

IsDigits(s) == s # <<>> /\ \A i \in 1..Len(s) : s[i] \in Digit

\* a decimal integer, as a client writes it
IsDecimal(s) ==
    IsDigits(s) \/ (s # <<>> /\ Head(s) = "-" /\ IsDigits(Tail(s)))

RECURSIVE Magnitude(_)
Magnitude(s) ==
    IF s = <<>> THEN 0
    ELSE Magnitude(SubSeq(s, 1, Len(s) - 1)) * 10 + DigitVal(s[Len(s)])

\* the integer a decimal denotes
Number(s) == IF Head(s) = "-" THEN -Magnitude(Tail(s)) ELSE Magnitude(s)

\* line is the setter `P v` of parameter p for an integer v
IsSetter(p, line) ==
    IsPrefix(p.set \o <<" ">>, line) /\ IsDecimal(Argument(p, line))

InRange(p, line) ==
    IsSetter(p, line) /\ Number(Argument(p, line)) \in 0..p.max

OutOfRange(p, line) ==
    IsSetter(p, line) /\ Number(Argument(p, line)) \notin 0..p.max

\* a setter prefix whose argument is missing or no integer
Malformed(p, line) == IsPrefix(p.set, line) /\ ~IsDecimal(Argument(p, line))

Unrecognized(line) ==
    \A i \in 1..Len(Params) :
        ~IsPrefix(Params[i].set, line) /\ ~IsPrefix(Params[i].get, line)

\* the reply `P v` followed by a newline
Reply(p, v) == p.set \o <<" ">> \o Dec(v) \o <<"\n">>

\* a step of the control loop that handles the line in buffer
Dispatch == pc = "parse" /\ pc' # "parse"

\* the control loop is inside parse_command, holding a line
Dispatching == pc \in {"parse", "send", "send_copy", "send_arm"}

\* a fading cycle is started by the step
Armed == prev' = pwm /\ next' = light_rgb(light') /\ step' = FADE_STEPS - 1

\* values at the edges of the ranges and of the number of digits
RoundTripValues == {0, 1, 9, 10, 50, 99, 100, 101, 359, 360}

(***************************************************************************)
(* Properties of the dispatcher.                                           *)
(***************************************************************************)
\* C1: set/get round trip.  When the line `P v` with 0 <= v <= M was handled
\* and the getter `?P` is handled next with the transmitter idle, the
\* transmit buffer is loaded with exactly `P v` and a newline, whatever the
\* configuration and the fading cycle are; and from the configuration of any
\* state in which a getter `?P` is about to be parsed, parsing `P v` and then
\* `?P` formats that reply, for the values v at the edges of the range.
C1_RoundTrip ==
    \A i \in 1..Len(Params) :
        /\ (pc = "send_arm" /\ buffer = Params[i].get
                /\ InRange(Params[i], last))
              => uart_tx_buffer =
                     Reply(Params[i], Number(Argument(Params[i], last)))
        /\ (pc = "parse" /\ buffer = Params[i].get) =>
              \A v \in RoundTripValues \cap 0..Params[i].max :
                  LET set == ParseChain(Arg(Params[i].set, Dec(v)), light, 1)
                      get == ParseChain(Params[i].get, set.light, 1)
                  IN  ~set.send /\ get.send /\ get.tmp = Reply(Params[i], v)
                        /\ get.light = set.light

C1_Witness ==
    /\ pc = "send_arm"
    /\ buffer = Getter(CmdVal)
    /\ last = Arg(CmdVal, <<"5", "0">>)
    /\ light.value = 50
    /\ uart_tx_buffer = <<"v", "a", "l", " ", "5", "0", "\n">>
    /\ step > 0
    /\ pwm # next

\* C2: an out-of-range setter `P v` (v < 0 or v > M) leaves the
\* configuration as it was and sends no reply: the step that handles it
\* changes no field, does not enter uart_send and leaves the transmitter
\* alone.
C2_OutOfRangeIgnored ==
    [][(Dispatch /\ \E i \in 1..Len(Params) : OutOfRange(Params[i], buffer))
          => (light' = light /\ pc' = "fade" /\ UNCHANGED txVars)]_vars

\* C3: the fields of the configuration stay within their ranges in every
\* reachable state, and the configuration changes only in a step in which
\* the control loop handles a line, never in a step of an interrupt handler.
LightBounds ==
    /\ light.power \in 0..1
    /\ light.value \in 0..100
    /\ light.hue \in 0..360
    /\ light.saturation \in 0..100

C3_LightBounds ==
    /\ []LightBounds
    /\ [][(light' # light => Dispatch)
          /\ (USART_RX_vect \/ USART_UDRE_vect => light' = light)]_vars

C3_Witness ==
    /\ last = Arg(CmdHue, <<"3", "6", "1">>)
    /\ light.hue = 120
    /\ uart_rx_cnt > 0
    /\ lines_left < MaxLines

\* C4: a line with none of the prefixes pwr, ?pwr, val, ?val, hue, ?hue,
\* sat, ?sat (the empty line among them) is ignored entirely: the step that
\* handles it leaves the configuration, the transmitter, the fading cycle
\* (prev, next, step) and the PWM registers unchanged.
C4_UnrecognizedIgnored ==
    [][(Dispatch /\ Unrecognized(buffer))
          => (light' = light /\ pc' = "fade" /\ UNCHANGED txVars
                /\ UNCHANGED <<prev, next, step>> /\ pwm' = pwm)]_vars

\* C5: a recognized setter whose value is out of range and was not written
\* to the configuration does not start a fading cycle: prev, next and step
\* are left unchanged.
C5_OutOfRangeNotArmed ==
    [][(Dispatch /\ light' = light
          /\ \E i \in 1..Len(Params) : OutOfRange(Params[i], buffer))
          => UNCHANGED <<prev, next, step>>]_vars

\* C6: while a getter line is handled, whether its reply is sent or not, no
\* step changes a field of the configuration, the fading cycle (prev, next,
\* step) or the PWM registers.
C6_GetterFrame ==
    [][(Dispatching /\ \E i \in 1..Len(Params) : buffer = Params[i].get)
          => UNCHANGED <<light, prev, next, step, pwm>>]_vars

\* a getter handled while the transmitter was busy
\* with the reply to another one
C6_Witness ==
    /\ last = Getter(CmdHue)
    /\ pc = "fade"
    /\ ~uart_tx_ready
    /\ uart_tx_buffer # <<>> /\ Head(uart_tx_buffer) = "v"

C8_MalformedDropped ==
    [][\A i \in 1..Len(Params) :
          (Dispatch /\ Malformed(Params[i], buffer))
             => (light'[Params[i].field] = light[Params[i].field]
                   /\ pc' = "fade" /\ UNCHANGED txVars)]_vars

\* C9: the step that handles a setter with an in-range value writes the
\* value to its field and starts a fading cycle whose start colour prev is
\* the content of the PWM registers before the step and whose end colour
\* next is the projection of the configuration after the step.
C9_ArmEndpoints ==
    [][\A i \in 1..Len(Params) :
          (Dispatch /\ InRange(Params[i], buffer))
             => /\ light' = [light EXCEPT ![Params[i].field] =
                                 Number(Argument(Params[i], buffer))]
                /\ prev' = pwm
                /\ next' = light_rgb(light')]_vars

\* a setter handled while the cycle of an earlier setter was in flight: the
\* new cycle starts at a colour between the ends of the old one
C9_Witness ==
    /\ last = Arg(CmdVal, <<"5", "0">>)
    /\ pc = "fade"
    /\ lines_left = 0
    /\ light = Light(1, 50, 0, 0)
    /\ step = FADE_STEPS - 1
    /\ next = light_rgb(light)
    /\ prev \notin {light_rgb(l) : l \in InitLights}
    /\ prev # next

\* C10: a getter handled while a fading cycle is in flight (step > 0 and the
\* PWM registers differ from the end colour) reports the field of the
\* configuration, which is the value of the setter of that parameter when
\* that setter was the line handled before.
C10_GetterReportsTarget ==
    \A i \in 1..Len(Params) :
        (pc = "send" /\ buffer = Params[i].get /\ step > 0 /\ pwm # next)
           => /\ tmp = Reply(Params[i], light[Params[i].field])
              /\ InRange(Params[i], last)
                    => light[Params[i].field] =
                           Number(Argument(Params[i], last))

C10_Witness ==
    /\ pc = "send"
    /\ buffer = Getter(CmdVal)
    /\ last = Arg(CmdVal, <<"5", "0">>)
    /\ tmp = <<"v", "a", "l", " ", "5", "0", "\n">>
    /\ step > 0 /\ step < FADE_STEPS - 1
    /\ pwm # next
    /\ pwm.r # 127

(***************************************************************************)
(* Properties of the fade engine.                                          *)
(***************************************************************************)
Channels == {"r", "g", "b"}

\* x lies between a and b inclusive
Between(a, x, b) == (a <= x /\ x <= b) \/ (b <= x /\ x <= a)

\* a step of the control loop that is the call fade_light(false)
Tick == pc = "fade" /\ pc' = "receive"

\* C11: exact arrival.  When step has become 0 in a fading cycle that was
\* not restarted, the PWM registers hold exactly the end colour next on
\* every channel.
C11_ExactArrival ==
    step = 0 => \A c \in Channels : pwm[c] = next[c]

C11_Witness ==
    /\ step = 0
    /\ fade_steps = FADE_STEPS
    /\ prev = RGB(25, 128, 254)
    /\ next = light_rgb(Light(1, 33, 300, 77))
    /\ pwm = next
    /\ \A c \in Channels : prev[c] # next[c]

\* C12: monotone bounded interpolation.  In a fading cycle that is not
\* restarted every colour written lies, on each channel, between the start
\* colour prev and the end colour next inclusive, and the successive colours
\* written move in the direction from prev to next or stay; from (0,0,0) to
\* (255,255,255) the k-th colour written is (k,k,k).
C12_MonotoneBounded ==
    /\ [](\A c \in Channels : Between(prev[c], pwm[c], next[c]))
    /\ []((prev = RGB(0, 0, 0) /\ next = RGB(255, 255, 255))
             => pwm = RGB(fade_steps, fade_steps, fade_steps))
    /\ [][\A c \in Channels :
             /\ next[c] >= prev[c] => pwm'[c] >= pwm[c]
             /\ next[c] <= prev[c] => pwm'[c] <= pwm[c]]_vars

C12_Witness ==
    /\ prev = RGB(0, 0, 0)
    /\ next = RGB(255, 255, 255)
    /\ fade_steps = 128
    /\ pwm = RGB(128, 128, 128)
    /\ pc = "receive"

\* C13 as stated: in every iteration of the control loop at most one fading
\* step is taken (one decrement of step, one write of the PWM registers).
C13_OneStepPerIteration == iter_steps <= 1

\* C13 amended: the call fade_light(false) of an iteration takes at most one
\* step, and the call fade_light(true) behind a line that does not start
\* with `?` takes one more, the first step of the cycle it starts; so an
\* iteration takes at most two steps, and two only when it started a cycle.
C13_TwoStepsPerIteration ==
    /\ iter_steps <= 2
    /\ pc # "fade" => iter_steps <= 1
    /\ iter_steps = 2 =>
          /\ step = FADE_STEPS - 1
          /\ fade_steps = 1
          /\ last = <<>> \/ Head(last) # "?"

C13_Witness ==
    /\ iter_steps = 2
    /\ last = Arg(CmdHue, <<"1", "2", "0">>)
    /\ lines_left = 0
    /\ pc = "fade"

\* C14: a setter that restarts the cycle while step > 0 takes as start
\* colour the content of the PWM registers, which is the colour the running
\* cycle wrote last, and the first colour it writes lies on every channel
\* between that colour and the new end colour inclusive.
C14_RearmSnapshot ==
    [][(Dispatch /\ step > 0
          /\ \E i \in 1..Len(Params) : InRange(Params[i], buffer))
          => /\ prev' = pwm
             /\ pwm = FadeColor(prev, next, step)
             /\ step' = FADE_STEPS - 1
             /\ \A c \in Channels : Between(prev'[c], pwm'[c], next'[c])]_vars

\* `pwr 0` during the fade from white to half brightness
C14_Witness ==
    /\ last = Arg(CmdPwr, <<"0">>)
    /\ lines_left = 0
    /\ pc = "fade"
    /\ step = FADE_STEPS - 1
    /\ light = Light(0, 50, 0, 0)
    /\ next = RGB(0, 0, 0)
    /\ prev \in {RGB(254, 254, 254), RGB(253, 253, 253)}
    /\ pwm # prev

\* C15: a call fade_light(false) with step = 0 takes no step: prev, next,
\* step and the PWM registers are unchanged, and neither a write of the
\* registers nor a wait is performed.
C15_IdleTick ==
    [][(Tick /\ step = 0)
          => (UNCHANGED <<prev, next, step, pwm, fade_steps>>
                /\ iter_steps' = 0)]_vars

C15_Witness ==
    /\ pc = "receive"
    /\ step = 0
    /\ iter_steps = 0
    /\ last = Getter(CmdSat)
    /\ lines_left = 0

\* C16: fixed step budget.  step is always in 0..FADE_STEPS; every call
\* fade_light(false) with step > 0 takes exactly one step, and the calls
\* take no step once step is 0, which is when FADE_STEPS steps have been
\* taken since the cycle was started.
C16_StepBudget ==
    /\ [](step \in 0..FADE_STEPS /\ fade_steps = FADE_STEPS - step)
    /\ [][Tick =>
            IF step > 0
              THEN step' = step - 1 /\ fade_steps' = fade_steps + 1
              ELSE step' = 0 /\ fade_steps' = FADE_STEPS]_vars

C16_Witness ==
    /\ step = 0
    /\ fade_steps = FADE_STEPS
    /\ pc = "receive"
    /\ iter_steps = 0
    /\ prev = RGB(255, 255, 255)
    /\ next = RGB(0, 0, 0)

\* C17: no cancellation.  While the control loop keeps running, a fading
\* cycle with steps left goes on: from every state with step > 0 a state is
\* reached in which step is smaller or in which the cycle has just been
\* restarted by a setter, and in the end step is 0.
C17_FadeCompletes ==
    /\ (step > 0) ~> (step = 0)
    /\ [][(Tick /\ step > 0) => step' = step - 1]_vars
    /\ [][step' > step => (Dispatch /\ step' = FADE_STEPS - 1)]_vars

\* the cycle that superseded the first one has reached its end
C17_Witness ==
    /\ step = 0
    /\ last = Arg(CmdVal, <<"5", "0">>)
    /\ fade_steps = FADE_STEPS
    /\ light = Light(1, 50, 120, 100)
    /\ prev \notin FadeStarts
    /\ pwm = next

(***************************************************************************)
(* Properties of the transport.                                            *)
(***************************************************************************)
\* C18: the handoff of a received line.  The control loop copies the buffer
\* only while uart_rx_ready is set, no step changes uart_rx_buffer or
\* uart_rx_cnt while it is set, and the copy equals the buffer, under every
\* interleaving of the steps of uart_receive with arriving bytes.
C18_ReceiveHandoff ==
    /\ [](pc \in {"receive_copy", "receive_clear"} => uart_rx_ready)
    /\ [](pc = "receive_clear" => buffer = uart_rx_buffer)
    /\ [][uart_rx_ready => UNCHANGED <<uart_rx_buffer, uart_rx_cnt>>]_vars
    /\ [][pc = "receive_clear" => buffer' = buffer]_vars

\* two bytes have arrived and were dropped before the flag is cleared
C18_Witness ==
    /\ pc = "receive_clear"
    /\ drops_left = MaxDrops - 2
    /\ Len(client) = 2
    /\ buffer = Arg(CmdVal, <<"5", "0">>)
    /\ uart_rx_buffer = buffer
    /\ uart_rx_cnt = 0

\* C19: uart_send called while uart_tx_ready is clear returns without a
\* change of the transmit buffer, the transmit pointer, the flag or UDRIE0,
\* and the bytes written to UDR0 are those of the string in the buffer, one
\* after the other: all of them once the flag is set again.
C19_SendBusyRefused ==
    /\ [][(pc = "send" /\ pc' # pc /\ ~uart_tx_ready)
            => (pc' = "fade"
                  /\ UNCHANGED <<uart_tx_buffer, uart_tx_p, uart_tx_ready,
                                 udrie, udr, wire>>)]_vars
    /\ [](IsPrefix(wire, uart_tx_buffer)
            /\ (uart_tx_ready => wire = uart_tx_buffer))

\* `?hue` was refused while the reply to `?val` was sent, which is complete
C19_Witness ==
    /\ last = Getter(CmdHue)
    /\ pc = "fade"
    /\ uart_tx_ready
    /\ wire = <<"v", "a", "l", " ", "5", "0", "\n">>
    /\ lines_left = 0

\* C20: a byte that arrives while uart_rx_ready is set is discarded: the
\* receive buffer, uart_rx_cnt and the flag are unchanged by the step in
\* which the client's byte arrives, a terminator included.
C20_DropWhileReady ==
    [][((client' # client \/ lines_left' # lines_left) /\ uart_rx_ready)
          => UNCHANGED rxVars]_vars

\* the terminator of an empty line was dropped while `val 50` was waiting
C20_Witness ==
    /\ lines_left = DropLines - 1
    /\ client = <<>>
    /\ drops_left = MaxDrops - 1
    /\ uart_rx_ready
    /\ uart_rx_buffer = Arg(CmdVal, <<"5", "0">>)
    /\ last = <<>>
    /\ step = 0
    /\ pc = "fade"

\* a step in which the receive interrupt takes the terminator of a line
Terminated == lines_left' # lines_left

\* C21: line termination.  When a terminator arrives while uart_rx_ready is
\* clear, the receive buffer then holds as its string the bytes stored below
\* uart_rx_cnt, the flag is set and uart_rx_cnt is 0; no terminator is ever
\* in the receive buffer or in the line given to the control loop.
C21_LineTermination ==
    /\ [][(Terminated /\ ~uart_rx_ready)
            => /\ uart_rx_buffer' = SubSeq(uart_rx_buffer, 1, uart_rx_cnt)
               /\ uart_rx_ready'
               /\ uart_rx_cnt' = 0]_vars
    /\ [](\A i \in 1..Len(uart_rx_buffer) : uart_rx_buffer[i] \notin Terminator)
    /\ [](\A i \in 1..Len(buffer) : buffer[i] \notin Terminator)

\* a line of UART_BUFFER_SIZE - 2 bytes was ended and is waiting
C21_Witness ==
    /\ uart_rx_ready
    /\ uart_rx_cnt = 0
    /\ uart_rx_buffer = LongLine(UART_BUFFER_SIZE - 2)
    /\ client = <<>>
    /\ lines_left = MaxLines - 1

\* the first UART_BUFFER_SIZE - 1 bytes of a line
Truncated(line) ==
    IF Len(line) > UART_BUFFER_SIZE - 1
      THEN SubSeq(line, 1, UART_BUFFER_SIZE - 1) ELSE line

\* C22: bounded receive with truncation.  uart_rx_cnt and the length of the
\* string in the receive buffer never exceed UART_BUFFER_SIZE - 1; a byte
\* behind the first UART_BUFFER_SIZE - 1 of its line changes nothing; at
\* its terminator a line of at most UART_BUFFER_SIZE - 1 bytes is in the
\* buffer whole and a longer one as its first UART_BUFFER_SIZE - 1 bytes,
\* and that is the line the control loop parses.
C22_BoundedReceive ==
    /\ [](uart_rx_cnt <= UART_BUFFER_SIZE - 1
            /\ Len(uart_rx_buffer) <= UART_BUFFER_SIZE - 1)
    /\ [][(Terminated /\ ~uart_rx_ready)
            => uart_rx_buffer' = Truncated(client)]_vars
    /\ [][Len(client') > UART_BUFFER_SIZE - 1 => UNCHANGED rxVars]_vars
    /\ [](pc = "parse" => \E l \in LongLines : buffer = Truncated(l))

\* MaxExcess bytes of a line were dropped, and a line was parsed before
C22_Witness ==
    /\ Len(client) = UART_BUFFER_SIZE - 1 + MaxExcess
    /\ uart_rx_cnt = UART_BUFFER_SIZE - 1
    /\ uart_rx_buffer = SubSeq(client, 1, UART_BUFFER_SIZE - 1)
    /\ last = LongLine(UART_BUFFER_SIZE - 1)

\* a step in which uart_receive hands a line to parse_command
Delivered == pc # "parse" /\ pc' = "parse"

\* C23: uart_receive checks and takes.  Called while uart_rx_ready is clear
\* it returns to the loop at once and leaves the local buffer, the receive
\* buffer, uart_rx_cnt and the flag as they are; called while the flag is
\* set it goes on to the copy, and it hands over the line with the step
\* that clears the flag, the local buffer then being the string of the
\* receive buffer.  The flag is cleared by no other step and set only by
\* the terminator of a line, so every line that set the flag is handed
\* over once.
C23_CheckAndTake ==
    /\ [][(pc = "receive" /\ pc' # pc /\ ~uart_rx_ready)
            => (pc' = "fade" /\ UNCHANGED <<buffer, rxVars>>)]_vars
    /\ [][(pc = "receive" /\ pc' # pc /\ uart_rx_ready)
            => (pc' = "receive_copy" /\ UNCHANGED rxVars)]_vars
    /\ [][Delivered
            => /\ uart_rx_ready /\ ~uart_rx_ready'
               /\ buffer' = uart_rx_buffer
               /\ UNCHANGED <<uart_rx_buffer, uart_rx_cnt>>]_vars
    /\ [][(uart_rx_ready /\ ~uart_rx_ready') => Delivered]_vars
    /\ [][(~uart_rx_ready /\ uart_rx_ready') => Terminated]_vars

\* `?val` was handed over while the first byte of the next line was dropped
C23_Witness ==
    /\ pc = "parse"
    /\ buffer = Getter(CmdVal)
    /\ ~uart_rx_ready
    /\ uart_rx_buffer = buffer
    /\ Len(client) = 1
    /\ drops_left = MaxDrops - 1

\* a step of the transmit interrupt
Drained == udrie /\ (uart_tx_p' # uart_tx_p \/ ~udrie')

\* C24: the order of the transmission.  uart_send, once it has taken the
\* flag, copies its argument into the transmit buffer; while the flag is
\* clear the bytes written to UDR0 are the first uart_tx_p bytes of the
\* string in the buffer; an invocation of the transmit interrupt below the
\* end of the string writes the byte at uart_tx_p and moves uart_tx_p by
\* one, and the invocation at the end of the string writes nothing, clears
\* UDRIE0, sets uart_tx_p to the start and sets the flag, all bytes of the
\* string having been written.
C24_DrainOrder ==
    /\ [][(pc = "send_copy" /\ pc' # pc)
            => (uart_tx_buffer' = tmp /\ uart_tx_p' = 0 /\ wire' = <<>>)]_vars
    /\ [](~uart_tx_ready => wire = SubSeq(uart_tx_buffer, 1, uart_tx_p))
    /\ [][Drained =>
            IF uart_tx_p < Len(uart_tx_buffer)
              THEN /\ wire' = wire \o <<uart_tx_buffer[uart_tx_p + 1]>>
                   /\ udr' = <<uart_tx_buffer[uart_tx_p + 1]>>
                   /\ uart_tx_p' = uart_tx_p + 1
                   /\ udrie' /\ ~uart_tx_ready'
              ELSE /\ wire' = wire /\ wire = uart_tx_buffer
                   /\ udr' = udr
                   /\ uart_tx_p' = 0
                   /\ ~udrie' /\ uart_tx_ready']_vars

\* the reply to `?hue` has been written, the interrupt has disarmed itself
C24_Witness ==
    /\ uart_tx_ready
    /\ ~udrie
    /\ uart_tx_p = 0
    /\ uart_tx_buffer = <<"h", "u", "e", " ", "1", "2", "0", "\n">>
    /\ wire = uart_tx_buffer
    /\ last = Getter(CmdHue)

\* values of an int field at the edges of the ranges and of the type
WideValues == RoundTripValues \cup {-(2 ^ (INT_BITS - 1)), 2 ^ (INT_BITS - 1) - 1}

\* C25: the transmit pointer stays in the buffer.  The reply formatted for
\* any parameter and any value of an int has fewer than UART_BUFFER_SIZE
\* characters, so have the string passed to uart_send and the string in
\* the transmit buffer, which leaves a NUL in the buffer, and uart_tx_p is
\* never behind that NUL: the interrupt reads inside the buffer.
C25_TransmitBounds ==
    /\ Len(tmp) <= UART_BUFFER_SIZE - 1
    /\ Len(uart_tx_buffer) <= UART_BUFFER_SIZE - 1
    /\ uart_tx_p \in 0..Len(uart_tx_buffer)
    /\ pc = "send" =>
          \A i \in 1..Len(Params) : \A v \in WideValues :
              Len(FormatReply(Params[i].set, v)) <= UART_BUFFER_SIZE - 1

\* the interrupt is about to read the NUL behind the longest reply sent
C25_Witness ==
    /\ udrie
    /\ uart_tx_buffer = <<"h", "u", "e", " ", "1", "2", "0", "\n">>
    /\ uart_tx_p = Len(uart_tx_buffer)
    /\ wire = uart_tx_buffer
    /\ ~uart_tx_ready

\* a step of the control loop, and a step of an interrupt handler
LoopStep == pc' # pc

IsrStep == pc' = pc

\* C26 as stated: every field shared by the control loop and an interrupt
\* handler is written from one side only: the receive buffer and its flag
\* by the receive interrupt, the transmit buffer and its flag by the
\* control loop.
C26_SingleWriter ==
    /\ [][(uart_rx_buffer' # uart_rx_buffer \/ uart_rx_ready' # uart_rx_ready)
            => IsrStep]_vars
    /\ [][(uart_tx_buffer' # uart_tx_buffer \/ uart_tx_ready' # uart_tx_ready)
            => LoopStep]_vars

\* C26 amended: each buffer is written from one side only, and only while
\* its flag gives it to that side: the receive buffer and uart_rx_cnt by
\* the receive interrupt while uart_rx_ready is clear, the transmit buffer
\* by the control loop while uart_tx_ready is clear and UDRIE0 is off.  Each
\* flag is written from both sides, in one direction from each:
\* uart_rx_ready is set by the receive interrupt and cleared by the control
\* loop, uart_tx_ready is cleared by the control loop and set by the
\* transmit interrupt.
C26_FlagHandoff ==
    /\ [][(uart_rx_buffer' # uart_rx_buffer \/ uart_rx_cnt' # uart_rx_cnt)
            => (IsrStep /\ ~uart_rx_ready)]_vars
    /\ [][uart_tx_buffer' # uart_tx_buffer
            => (LoopStep /\ ~uart_tx_ready /\ ~udrie)]_vars
    /\ [][(~uart_rx_ready /\ uart_rx_ready') => IsrStep]_vars
    /\ [][(uart_rx_ready /\ ~uart_rx_ready') => LoopStep]_vars
    /\ [][(uart_tx_ready /\ ~uart_tx_ready') => LoopStep]_vars
    /\ [][(~uart_tx_ready /\ uart_tx_ready') => IsrStep]_vars

\* both flags have gone round: `?pwr` was received and its reply sent
C26_Witness ==
    /\ last = Getter(CmdPwr)
    /\ pc = "fade"
    /\ ~uart_rx_ready
    /\ uart_rx_buffer = Getter(CmdPwr)
    /\ uart_tx_ready
    /\ uart_tx_buffer = <<"p", "w", "r", " ", "1", "\n">>
    /\ wire = uart_tx_buffer

\* C27: a reply lost under contention.  When uart_send is called for the
\* reply to a getter while uart_tx_ready is clear, the dispatcher returns
\* to the loop and the reply is gone: the light configuration, the fading
\* cycle, the transmit buffer and the bytes written are untouched by the
\* step, no reply is kept once the dispatch is over, and the transmit
\* buffer only ever takes the reply of the call of uart_send that took the
\* flag; so the reply being transmitted stays as it is, and the refused
\* one is not transmitted later.
C27_LostReply ==
    /\ [][(pc = "send" /\ ~uart_tx_ready /\ LoopStep)
            => /\ pc' = "fade"
               /\ tmp' = <<>>
               /\ buffer' = <<>>
               /\ UNCHANGED <<light, pwm, step, prev, next, fade_steps,
                              uart_tx_buffer, uart_tx_p, udr, wire>>]_vars
    /\ [](pc \notin {"parse", "send", "send_copy", "send_arm"} => tmp = <<>>)
    /\ [][uart_tx_buffer' # uart_tx_buffer
            => (pc = "send_copy" /\ uart_tx_buffer' = tmp /\ tmp' = tmp)]_vars

\* the reply to `?sat` was refused; the reply to `?pwr` was written whole
C27_Witness ==
    /\ last = Getter(CmdSat)
    /\ pc = "fade"
    /\ tmp = <<>>
    /\ uart_tx_ready
    /\ uart_tx_buffer \in {Reply(Params[1], 0), Reply(Params[1], 1)}
    /\ wire = uart_tx_buffer
    /\ lines_left = 0

\* the positions of the control loop in the order an iteration passes them
LoopOrder ==
    << "fade", "receive", "receive_copy", "receive_clear", "parse", "send",
       "send_copy", "send_arm" >>

Rank(p) == CHOOSE i \in 1..Len(LoopOrder) : LoopOrder[i] = p

\* C28: no indefinite blocking.  Every step of the control loop moves it
\* forward in its iteration or ends the iteration, so an iteration has at
\* most as many steps as the loop has positions; and while the control loop
\* keeps taking steps, whatever the interrupts do and whatever the flags of
\* the buffers are, iterations begin and end again and again: the loop
\* waits for no interrupt and never halts.
C28_LoopRuns ==
    /\ [][LoopStep => (pc' = "fade" \/ Rank(pc') > Rank(pc))]_vars
    /\ []<>(pc = "fade")
    /\ []<>(pc = "receive")

\* the loop ended the iteration in which uart_send was refused for `?hue`
C28_Witness ==
    /\ pc = "fade"
    /\ last = Getter(CmdHue)
    /\ ~uart_tx_ready
    /\ udrie
    /\ uart_tx_buffer = <<"v", "a", "l", " ", "1", "0", "0", "\n">>
    /\ lines_left = 0

\* C29: the framing of the lines.  Every line handed to parse_command is a
\* line the client sent, whole (the lines of the client are shorter than
\* the buffer); in particular it is no rest of a line whose first bytes
\* were dropped while the line before was waiting.
C29_FramingIntegrity == pc = "parse" => buffer \in Lines

(***************************************************************************)
(* Properties of the firmware as a whole.                                  *)
(***************************************************************************)
\* C30: the output tracks the target.  Between two iterations of the
\* control loop the end colour next of the fading cycle is the projection
\* of the light configuration, and when no steps are left (step = 0) the
\* PWM registers hold that projection; this is so after reset and behind
\* every line, whatever it changed.
C30_OutputTracksTarget ==
    pc = "fade" =>
        /\ next = light_rgb(light)
        /\ step = 0 => pwm = light_rgb(light)

\* `sat 100` on white at full brightness has faded to red
C30_Witness ==
    /\ pc = "fade"
    /\ step = 0
    /\ fade_steps = FADE_STEPS
    /\ last = Arg(CmdSat, <<"1", "0", "0">>)
    /\ light = Light(1, 100, 0, 100)
    /\ prev = RGB(255, 255, 255)
    /\ pwm = RGB(255, 0, 0)

\* the fields of the configuration that a step changes
Written == {f \in DOMAIN light : light'[f] # light[f]}

\* C31: the frame of a setter.  The step that handles a line changes at most
\* one field of the configuration; for a line with the setter prefix of a
\* parameter that field is the one of the parameter, whatever the argument
\* is, and for a line with no setter prefix no field changes.
C31_SetterFrame ==
    /\ [][Cardinality(Written) <= 1]_vars
    /\ [][Dispatch =>
            \A i \in 1..Len(Params) :
                IsPrefix(Params[i].set, buffer)
                    => Written \subseteq {Params[i].field}]_vars
    /\ [][(Dispatch /\ \A i \in 1..Len(Params) :
                          ~IsPrefix(Params[i].set, buffer))
            => Written = {}]_vars

\* `hue 120` changed the hue of white and kept the other three fields
C31_Witness ==
    /\ last = Arg(CmdHue, <<"1", "2", "0">>)
    /\ light = Light(1, 100, 120, 0)
    /\ lines_left = MaxLines - 1
    /\ pc = "fade"

\* C32: the handoff of the transmit buffer.  UDRIE0 is set only while
\* uart_tx_ready is clear; while the flag is set UDRIE0 is off and uart_tx_p
\* is at the start of the buffer; and where uart_send copies into the
\* buffer, and until it sets UDRIE0, the interrupt is off and the flag is
\* clear, so the interrupt never reads a buffer that is being written.
C32_TransmitHandoff ==
    /\ udrie => ~uart_tx_ready
    /\ uart_tx_ready => (~udrie /\ uart_tx_p = 0)
    /\ pc \in {"send_copy", "send_arm"} =>
          (~udrie /\ ~uart_tx_ready /\ uart_tx_p = 0)

\* uart_send is about to copy the reply to `?hue` over the reply to `?val`
C32_Witness ==
    /\ pc = "send_copy"
    /\ uart_tx_buffer = <<"v", "a", "l", " ", "1", "0", "0", "\n">>
    /\ tmp = <<"h", "u", "e", " ", "0", "\n">>
    /\ ~udrie
    /\ ~uart_tx_ready

\* C33: the transmission ends.  While the control loop runs and the
\* transmit interrupt is taken as long as UDRIE0 is set, every state in
\* which uart_tx_ready is clear is followed by one in which it is set and
\* the string in the transmit buffer has been written whole: uart_send is
\* not refused for ever.
C33_TransmitCompletes ==
    ~uart_tx_ready ~> (uart_tx_ready /\ wire = uart_tx_buffer)

\* the reply to `?hue`, accepted behind the reply to `?val`, is written
C33_Witness ==
    /\ uart_tx_ready
    /\ uart_tx_buffer = <<"h", "u", "e", " ", "0", "\n">>
    /\ wire = uart_tx_buffer
    /\ last = Getter(CmdHue)
    /\ drops_left = MaxDrops

\* C34 as stated: while setters that leave the end colour unchanged restart
\* the fading cycle in every iteration of the control loop, the PWM
\* registers still reach the end colour.
C34_ReachesTarget == <>(pwm = next)

\* the largest distance below the end colour from which a channel does not
\* move when the cycle is restarted in every iteration
StallBelow == (FADE_STEPS - 1) \div 2

\* C34 amended: while setters that leave the end colour unchanged restart
\* the fading cycle in every iteration of the control loop, no channel of
\* the PWM registers moves away from the end colour or past it, and a
\* channel above its end value reaches it; a channel below its end value by
\* at most StallBelow stays where it is, so the end colour need not be
\* reached while the restarts go on.
C34_ProgressKept ==
    /\ [][\A c \in Channels : Between(pwm[c], pwm'[c], next[c])]_vars
    /\ [][\A c \in Channels :
             (next[c] - pwm[c]) \in 1..StallBelow => pwm'[c] = pwm[c]]_vars
    /\ (pwm.r > next.r) ~> (pwm.r = next.r)
    /\ (pwm.g > next.g) ~> (pwm.g = next.g)
    /\ (pwm.b > next.b) ~> (pwm.b = next.b)

\* the cycle from black to white has come to a halt half way, while the
\* lines keep arriving
C34_Witness ==
    /\ next = RGB(255, 255, 255)
    /\ pwm = RGB(128, 128, 128)
    /\ prev = pwm
    /\ step = FADE_STEPS - 2
    /\ pc = "receive"
    /\ last = Arg(CmdPwr, <<"1">>)

=============================================================================
